---------------------------- MODULE Spec2Model ----------------------------
(***************************************************************************)
(* Model of MovieBot's user preference model (UserModel) and of the input  *)
(* encoding and construction of its neural dialogue policy                 *)
(* (NeuralDialoguePolicy).                                                 *)
(*                                                                         *)
(* Python values are represented as follows.                               *)
(*  - a float is a rational <<n, d>> in lowest terms with d > 0; the pair  *)
(*    <<0, 0>> stands for "no number" (a division by zero).                *)
(*  - a dict is the sequence of its <<key, value>> entries in insertion    *)
(*    order (Python dicts keep insertion order).                           *)
(*  - the nested defaultdict tag_preferences is a function whose domain is *)
(*    the set of slots present, each mapped to a function whose domain is  *)
(*    the set of tags present.                                             *)
(***************************************************************************)
EXTENDS Integers, Sequences, FiniteSets, TLC

VARIABLES
    movies_choices,   \* UserModel._movies_choices
    tag_preferences,  \* UserModel.tag_preferences
    call,             \* the most recent UserModel call and its arguments
    ret,              \* what that call returned or raised
    last_set,         \* history: <<slot, tag>> -> value most recently passed to set_tag_preference
    policy,           \* the NeuralDialoguePolicy instance, once constructed
    pcall,            \* the most recent NeuralDialoguePolicy call and its arguments
    tensor            \* the tensor that call returned

vars == <<movies_choices, tag_preferences, call, ret, last_set, policy, pcall, tensor>>

userVars == <<movies_choices, tag_preferences, call, ret, last_set>>

policyVars == <<policy, pcall, tensor>>

-----------------------------------------------------------------------------
(* Bounds *)

\* most choice events held over all items
MaxEvents == 3

\* most choice events held while tag preferences are exercised
MaxTagEvents == 1

\* size of the user-intent vocabulary
NumUserIntents == 3

\* size of the agent-intent vocabulary
NumAgentIntents == 2

-----------------------------------------------------------------------------
(* Input domains *)

MovieIds == {"m1", "m2"}

\* choices recorded through update_movie_choice / update_movies_choices
RecordedChoices == {"accept", "reject", "inquire"}

\* labels passed to _convert_choice_to_preference
ChoiceLabels == {"accept", "reject", "dont_like", "inquire", "watched", "skip"}

Slots == {"genres", "actors"}

Tags == {"comedy", "drama"}

\* values passed to set_tag_preference: 0.5 and 2.0
PrefValues == {<<1, 2>>, <<2, 1>>}

Databases == {"empty_db", "movies_db", "cast_db"}

-----------------------------------------------------------------------------
(* Floats as rationals *)

Abs(n) == IF n < 0 THEN -n ELSE n

RECURSIVE GCD(_, _)
GCD(a, b) == IF b = 0 THEN a ELSE GCD(b, a % b)

\* n / d for d > 0, in lowest terms
Rat(n, d) == LET g == GCD(Abs(n), d) IN <<n \div g, d \div g>>

Zero == <<0, 1>>

NoNumber == <<0, 0>>

InRange(r) == r[2] > 0 /\ -r[2] <= r[1] /\ r[1] <= r[2]

-----------------------------------------------------------------------------
(* dict and defaultdict(list) *)

DictKeys(d) == {d[i][1] : i \in DOMAIN d}

DictHas(d, k) == k \in DictKeys(d)

DictIndex(d, k) == CHOOSE i \in DOMAIN d : d[i][1] = k

DictGet(d, k) == d[DictIndex(d, k)][2]

\* d[k] = v
DictSet(d, k, v) ==
    IF DictHas(d, k)
    THEN [d EXCEPT ![DictIndex(d, k)] = <<k, v>>]
    ELSE Append(d, <<k, v>>)

\* d.update(other)
RECURSIVE DictUpdate(_, _)
DictUpdate(d, other) ==
    IF other = <<>> THEN d
    ELSE DictUpdate(DictSet(d, Head(other)[1], Head(other)[2]), Tail(other))

\* defaultdict(list).__getitem__: a missing key is inserted with []
DefaultGetState(d, k) == IF DictHas(d, k) THEN d ELSE Append(d, <<k, <<>>>>)

DefaultGetValue(d, k) == IF DictHas(d, k) THEN DictGet(d, k) ELSE <<>>

\* the choices recorded for an item, none when the item is no key
History(d, k) == IF DictHas(d, k) THEN DictGet(d, k) ELSE <<>>

RECURSIVE EventCount(_)
EventCount(d) == IF d = <<>> THEN 0 ELSE Len(Head(d)[2]) + EventCount(Tail(d))

-----------------------------------------------------------------------------
(* The item store *)

\* database.sql_connection.cursor().execute("SELECT ID ... WHERE slot LIKE
\* '%tag%'").fetchall(): the ids of the items whose slot matches the tag
FetchAll(database, slot, tag) ==
    CASE database = "movies_db" /\ slot = "genres" /\ tag = "comedy" -> {"m1", "m2"}
      [] database = "movies_db" /\ slot = "genres" /\ tag = "drama" -> {"m2"}
      [] database = "cast_db" /\ slot = "actors" /\ tag = "comedy" -> {"m1", "m3"}
      [] database = "cast_db" /\ slot = "actors" /\ tag = "drama" -> {"m3"}
      [] OTHER -> {}

-----------------------------------------------------------------------------
(* UserModel: pure parts *)

\* _convert_choice_to_preference, mapping dont_like to neutral
ConvertChoiceToPreference_DontLikeNeutral(choice) ==
    IF choice = "accept" THEN 1
    ELSE IF choice = "reject" THEN -1
    ELSE 0

\* _convert_choice_to_preference, accept weighted 2
ConvertChoiceToPreference_AcceptTwo(choice) ==
    IF choice = "accept" THEN 2
    ELSE IF choice \in {"reject", "dont_like"} THEN -1
    ELSE 0

\* _convert_choice_to_preference: 1.0, -1.0 or 0.0
ConvertChoiceToPreference(choice) ==
    IF choice = "accept" THEN 1
    ELSE IF choice \in {"reject", "dont_like"} THEN -1
    ELSE 0

\* the inner loop of compute_tag_preference over one item's choices:
\* <<preference, count_rated>> after it
RECURSIVE ChoicesLoop(_, _, _)
ChoicesLoop(choices, preference, count_rated) ==
    IF choices = <<>> THEN <<preference, count_rated>>
    ELSE ChoicesLoop(Tail(choices),
                     preference + ConvertChoiceToPreference(Head(choices)),
                     count_rated + 1)

\* the outer loop of compute_tag_preference over _movies_choices.items()
RECURSIVE ItemsLoop(_, _, _, _)
ItemsLoop(items, tag_set, preference, count_rated) ==
    IF items = <<>> THEN <<preference, count_rated>>
    ELSE LET movie_id == Head(items)[1]
             choices == Head(items)[2]
             acc == IF movie_id \in tag_set
                    THEN ChoicesLoop(choices, preference, count_rated)
                    ELSE <<preference, count_rated>>
         IN ItemsLoop(Tail(items), tag_set, acc[1], acc[2])

\* compute_tag_preference dividing by the number of rated items
ComputeTagPreference_PerItem(d, tag_set) ==
    LET acc == ItemsLoop(d, tag_set, 0, 0)
        n == Cardinality({k \in DictKeys(d) \cap tag_set : DictGet(d, k) # <<>>})
    IN IF n > 0 THEN Rat(acc[1], n) ELSE Zero

\* compute_tag_preference without the guard on count_rated
ComputeTagPreference_Unguarded(d, tag_set) ==
    LET acc == ItemsLoop(d, tag_set, 0, 0)
    IN IF acc[2] # 0 THEN Rat(acc[1], acc[2]) ELSE NoNumber

\* compute_tag_preference, given the rows the store returned
ComputeTagPreference(d, tag_set) ==
    LET acc == ItemsLoop(d, tag_set, 0, 0)
    IN IF acc[2] > 0 THEN Rat(acc[1], acc[2]) ELSE Zero

-----------------------------------------------------------------------------
(* UserModel: calls and their results *)

NoCall ==
    [op |-> "__init__", movie_id |-> "", choice |-> "", slot |-> "", tag |-> "",
     preference |-> Zero, database |-> "", arg_choices |-> <<>>]

RetNone == [kind |-> "None", pref |-> Zero, choices |-> <<>>]

RetFloat(r) ==
    IF r = NoNumber
    THEN [kind |-> "ZeroDivisionError", pref |-> Zero, choices |-> <<>>]
    ELSE [kind |-> "float", pref |-> r, choices |-> <<>>]

RetList(l) == [kind |-> "list", pref |-> Zero, choices |-> l]

RetTypeError == [kind |-> "TypeError", pref |-> Zero, choices |-> <<>>]

\* contents of the historical_movie_choices file, when one is given
Snapshots ==
    { <<>>,
      << <<"m1", <<"accept">>>> >>,
      << <<"m1", <<"accept">>>>, <<"m2", <<"reject", "reject">>>> >>,
      << <<"m2", <<>>>> >> }

\* dicts passed to update_movies_choices
BulkUpdates ==
    { << <<k, l>> >> : k \in MovieIds, l \in {<<>>} \cup {<<c>> : c \in RecordedChoices} }
    \cup { << <<"m1", <<"reject">>>>, <<"m2", <<"accept">>>> >> }

\* UserModel.__init__
Init ==
    /\ movies_choices \in {DictUpdate(<<>>, s) : s \in Snapshots}
    /\ tag_preferences = <<>>
    /\ call = NoCall
    /\ ret = RetNone
    /\ last_set = <<>>
    /\ policy = [constructed |-> FALSE, input_size |-> 0, hidden_size |-> 0,
                 output_size |-> 0, possible_actions |-> <<>>]
    /\ pcall = [op |-> "none", flags |-> {}, b_use_intents |-> FALSE,
                user_intents |-> <<>>, agent_intents |-> <<>>]
    /\ tensor = <<>>

\* update_movie_choice(movie_id, choice)
UpdateMovieChoice(movie_id, choice) ==
    /\ movies_choices' =
          DictSet(DefaultGetState(movies_choices, movie_id), movie_id,
                  Append(DefaultGetValue(movies_choices, movie_id), choice))
    /\ call' = [NoCall EXCEPT !.op = "update_movie_choice",
                              !.movie_id = movie_id, !.choice = choice]
    /\ ret' = RetNone
    /\ UNCHANGED <<tag_preferences, last_set, policyVars>>

\* update_movies_choices(movies_choices)
UpdateMoviesChoices(arg) ==
    /\ movies_choices' = DictUpdate(movies_choices, arg)
    /\ call' = [NoCall EXCEPT !.op = "update_movies_choices", !.arg_choices = arg]
    /\ ret' = RetNone
    /\ UNCHANGED <<tag_preferences, last_set, policyVars>>

\* get_movie_choices that also clears the tag preferences
GetMovieChoices_ClearsTags(movie_id) ==
    /\ movies_choices' = DefaultGetState(movies_choices, movie_id)
    /\ tag_preferences' = <<>>
    /\ call' = [NoCall EXCEPT !.op = "get_movie_choices", !.movie_id = movie_id]
    /\ ret' = RetList(DefaultGetValue(movies_choices, movie_id))
    /\ UNCHANGED <<last_set, policyVars>>

\* get_movie_choices(movie_id)
GetMovieChoices(movie_id) ==
    /\ movies_choices' = DefaultGetState(movies_choices, movie_id)
    /\ call' = [NoCall EXCEPT !.op = "get_movie_choices", !.movie_id = movie_id]
    /\ ret' = RetList(DefaultGetValue(movies_choices, movie_id))
    /\ UNCHANGED <<tag_preferences, last_set, policyVars>>

\* _convert_choice_to_preference(choice)
ConvertChoice(choice) ==
    /\ call' = [NoCall EXCEPT !.op = "_convert_choice_to_preference",
                              !.choice = choice]
    /\ ret' = RetFloat(Rat(ConvertChoiceToPreference(choice), 1))
    /\ UNCHANGED <<movies_choices, tag_preferences, last_set, policyVars>>

\* compute_tag_preference(slot, tag, database)
ComputeTagPreferenceCall(slot, tag, database) ==
    /\ call' = [NoCall EXCEPT !.op = "compute_tag_preference", !.slot = slot,
                              !.tag = tag, !.database = database]
    /\ ret' = RetFloat(ComputeTagPreference(movies_choices,
                                            FetchAll(database, slot, tag)))
    /\ UNCHANGED <<movies_choices, tag_preferences, last_set, policyVars>>

\* tag_preferences[slot]: a missing slot is inserted with an empty mapping
SlotGetState(tp, slot) == IF slot \in DOMAIN tp THEN tp ELSE tp @@ (slot :> <<>>)

\* tag_preferences[slot].get(tag, None) is not None
HasTag(tp, slot, tag) == slot \in DOMAIN tp /\ tag \in DOMAIN tp[slot]

\* get_tag_preference that always computes
GetTagPreference_AlwaysComputes(slot, tag) ==
    /\ tag_preferences' = SlotGetState(tag_preferences, slot)
    /\ call' = [NoCall EXCEPT !.op = "get_tag_preference", !.slot = slot,
                              !.tag = tag]
    /\ ret' = RetTypeError
    /\ UNCHANGED <<movies_choices, last_set, policyVars>>

\* get_tag_preference(slot, tag): the stored preference, or the call
\* self.compute_tag_preference(slot, tag), which lacks the database argument
\* and raises TypeError before the method body runs
GetTagPreference(slot, tag) ==
    /\ tag_preferences' = SlotGetState(tag_preferences, slot)
    /\ call' = [NoCall EXCEPT !.op = "get_tag_preference", !.slot = slot,
                              !.tag = tag]
    /\ ret' = IF HasTag(tag_preferences, slot, tag)
              THEN RetFloat(tag_preferences[slot][tag])
              ELSE RetTypeError
    /\ UNCHANGED <<movies_choices, last_set, policyVars>>

\* set_tag_preference clamping the value to [-1, 1]
SetTagPreference_Clamps(slot, tag, preference) ==
    LET tp == SlotGetState(tag_preferences, slot)
        v == IF InRange(preference) THEN preference
             ELSE IF preference[1] < 0 THEN <<-1, 1>> ELSE <<1, 1>>
    IN /\ tag_preferences' =
             [tp EXCEPT ![slot] = [t \in DOMAIN tp[slot] \cup {tag} |->
                                     IF t = tag THEN v ELSE tp[slot][t]]]
       /\ call' = [NoCall EXCEPT !.op = "set_tag_preference", !.slot = slot,
                                 !.tag = tag, !.preference = preference]
       /\ ret' = RetNone
       /\ last_set' = [k \in DOMAIN last_set \cup {<<slot, tag>>} |->
                         IF k = <<slot, tag>> THEN preference ELSE last_set[k]]
       /\ UNCHANGED <<movies_choices, policyVars>>

\* set_tag_preference(slot, tag, preference)
SetTagPreference(slot, tag, preference) ==
    LET tp == SlotGetState(tag_preferences, slot)
    IN /\ tag_preferences' =
             [tp EXCEPT ![slot] = [t \in DOMAIN tp[slot] \cup {tag} |->
                                     IF t = tag THEN preference ELSE tp[slot][t]]]
       /\ call' = [NoCall EXCEPT !.op = "set_tag_preference", !.slot = slot,
                                 !.tag = tag, !.preference = preference]
       /\ ret' = RetNone
       /\ last_set' = [k \in DOMAIN last_set \cup {<<slot, tag>>} |->
                         IF k = <<slot, tag>> THEN preference ELSE last_set[k]]
       /\ UNCHANGED <<movies_choices, policyVars>>

\* the operations on the choice history
Next ==
    \/ \E movie_id \in MovieIds, choice \in RecordedChoices :
          /\ EventCount(movies_choices) < MaxEvents
          /\ UpdateMovieChoice(movie_id, choice)
    \/ \E arg \in BulkUpdates :
          /\ EventCount(DictUpdate(movies_choices, arg)) <= MaxEvents
          /\ UpdateMoviesChoices(arg)
    \/ \E movie_id \in MovieIds : GetMovieChoices(movie_id)
    \/ \E choice \in ChoiceLabels : ConvertChoice(choice)
    \/ \E slot \in Slots, tag \in Tags, database \in Databases :
          ComputeTagPreferenceCall(slot, tag, database)

Spec == Init /\ [][Next]_vars

\* the operations on the tag preferences, with choices being recorded
NextTags ==
    \/ \E movie_id \in MovieIds, choice \in RecordedChoices :
          /\ EventCount(movies_choices) < MaxTagEvents
          /\ UpdateMovieChoice(movie_id, choice)
    \/ \E movie_id \in MovieIds : GetMovieChoices(movie_id)
    \/ \E slot \in Slots, tag \in Tags, database \in Databases :
          ComputeTagPreferenceCall(slot, tag, database)
    \/ \E slot \in Slots, tag \in Tags : GetTagPreference(slot, tag)
    \/ \E slot \in Slots, tag \in Tags, preference \in PrefValues :
          SetTagPreference(slot, tag, preference)

SpecTags == Init /\ [][NextTags]_vars

-----------------------------------------------------------------------------
(* NeuralDialoguePolicy *)

\* the labels of the UserIntents enumeration, in declaration order; a label
\* is a number and the order of numbers stands for the order of strings
UserIntentsEnum == [i \in 1..NumUserIntents |-> NumUserIntents + 1 - i]

\* the labels of the AgentIntents enumeration, in declaration order
AgentIntentsEnum == [i \in 1..NumAgentIntents |-> NumUserIntents + NumAgentIntents + 1 - i]

Range(f) == {f[i] : i \in DOMAIN f}

Min(S) == CHOOSE x \in S : \A y \in S : x <= y

\* sorted(set)
RECURSIVE Sorted(_)
Sorted(S) == IF S = {} THEN <<>> ELSE <<Min(S)>> \o Sorted(S \ {Min(S)})

\* MultiLabelBinarizer().fit([labels]).classes_
FitClasses(labels) == Sorted(Range(labels))

user_label_encoder == FitClasses(UserIntentsEnum)

agent_label_encoder == FitClasses(AgentIntentsEnum)

\* MultiLabelBinarizer.transform([labels])[0]
Transform(classes, labels) ==
    [i \in 1..Len(classes) |-> IF classes[i] \in Range(labels) THEN 1 ELSE 0]

\* torch.zeros(n)
Zeros(n) == [i \in 1..n |-> 0]

\* the fields of DialogueState read by build_input_from_dialogue_state, in order
StateFlags ==
    << "is_beginning", "agent_req_filled", "agent_can_lookup",
       "agent_made_partial_offer", "agent_should_make_offer",
       "agent_made_offer", "agent_offer_no_results", "at_terminal_state" >>

\* dialogue states, each the set of its flags that are true
DialogueStates ==
    { {"is_beginning"},
      {"agent_can_lookup", "agent_made_offer", "at_terminal_state"} }

\* lists of members of an enumeration, as their labels: every subset in
\* declaration order, and every member twice
IntentLists(enum) ==
    {SelectSeq(enum, LAMBDA x : x \in S) : S \in SUBSET Range(enum)}
    \cup {<<x, x>> : x \in Range(enum)}

\* build_input_from_dialogue_state
StateTensor(flags) ==
    [i \in 1..Len(StateFlags) |-> IF StateFlags[i] \in flags THEN 1 ELSE 0]

\* the intents tensor, with no tensor at all for an empty list of intents
IntentsTensor_EmptyOmitted(classes, intents) ==
    IF Len(intents) = 0 THEN <<>> ELSE Transform(classes, intents)

\* the intents tensor of build_input_from_dialogue_state_and_intents
IntentsTensor(classes, intents) ==
    IF Len(intents) = 0 THEN Zeros(Len(classes)) ELSE Transform(classes, intents)

\* build_input_from_dialogue_state_and_intents: torch.cat of the three
StateAndIntentsTensor(flags, user_intents, agent_intents) ==
    StateTensor(flags) \o IntentsTensor(user_label_encoder, user_intents)
                       \o IntentsTensor(agent_label_encoder, agent_intents)

NoPCall ==
    [op |-> "none", flags |-> {}, b_use_intents |-> FALSE,
     user_intents |-> <<>>, agent_intents |-> <<>>]

\* arguments of the constructor
OutputSizes == 1..2

ActionCatalogs == {<<"a1">>, <<"a1", "a2">>}

\* NeuralDialoguePolicy.__init__
Construct(input_size, hidden_size, output_size, possible_actions) ==
    /\ policy' = [constructed |-> TRUE, input_size |-> input_size,
                  hidden_size |-> hidden_size, output_size |-> output_size,
                  possible_actions |-> possible_actions]
    /\ UNCHANGED <<pcall, tensor, userVars>>

\* build_input_from_dialogue_state(dialogue_state)
BuildInputFromDialogueState(flags) ==
    /\ pcall' = [NoPCall EXCEPT !.op = "build_input_from_dialogue_state",
                                !.flags = flags]
    /\ tensor' = StateTensor(flags)
    /\ UNCHANGED <<policy, userVars>>

\* build_input_from_dialogue_state_and_intents(dialogue_state, user_intents,
\* agent_intents)
BuildInputFromDialogueStateAndIntents(flags, user_intents, agent_intents) ==
    /\ pcall' = [NoPCall EXCEPT
                    !.op = "build_input_from_dialogue_state_and_intents",
                    !.flags = flags, !.user_intents = user_intents,
                    !.agent_intents = agent_intents]
    /\ tensor' = StateAndIntentsTensor(flags, user_intents, agent_intents)
    /\ UNCHANGED <<policy, userVars>>

\* build_input(dialogue_state, b_use_intents=..., user_intents=...,
\* agent_intents=...)
BuildInput(flags, b_use_intents, user_intents, agent_intents) ==
    /\ pcall' = [NoPCall EXCEPT !.op = "build_input", !.flags = flags,
                                !.b_use_intents = b_use_intents,
                                !.user_intents = user_intents,
                                !.agent_intents = agent_intents]
    /\ tensor' = IF b_use_intents
                 THEN StateAndIntentsTensor(flags, user_intents, agent_intents)
                 ELSE StateTensor(flags)
    /\ UNCHANGED <<policy, userVars>>

InitPolicy ==
    /\ movies_choices = <<>>
    /\ tag_preferences = <<>>
    /\ call = NoCall
    /\ ret = RetNone
    /\ last_set = <<>>
    /\ policy = [constructed |-> FALSE, input_size |-> 0, hidden_size |-> 0,
                 output_size |-> 0, possible_actions |-> <<>>]
    /\ pcall = NoPCall
    /\ tensor = <<>>

NextPolicy ==
    \/ \E output_size \in OutputSizes, possible_actions \in ActionCatalogs :
          Construct(Len(StateFlags), Len(StateFlags), output_size, possible_actions)
    \/ \E flags \in DialogueStates : BuildInputFromDialogueState(flags)
    \/ \E flags \in DialogueStates,
          user_intents \in IntentLists(UserIntentsEnum),
          agent_intents \in IntentLists(AgentIntentsEnum) :
          BuildInputFromDialogueStateAndIntents(flags, user_intents, agent_intents)
    \/ \E flags \in DialogueStates : BuildInput(flags, FALSE, <<>>, <<>>)
    \/ \E flags \in DialogueStates,
          user_intents \in IntentLists(UserIntentsEnum),
          agent_intents \in IntentLists(AgentIntentsEnum) :
          BuildInput(flags, TRUE, user_intents, agent_intents)

SpecPolicy == InitPolicy /\ [][NextPolicy]_vars

-----------------------------------------------------------------------------
(* Properties *)

IsPrefix(a, b) == Len(a) <= Len(b) /\ SubSeq(b, 1, Len(a)) = a

\* the stated value of a choice label
StatedPreference(choice) ==
    CASE choice = "accept" -> <<1, 1>>
      [] choice = "reject" -> <<-1, 1>>
      [] choice = "dont_like" -> <<-1, 1>>
      [] OTHER -> <<0, 1>>

\* the number of choices of h that carry one of the labels
CountOf(h, labels) == Cardinality({i \in DOMAIN h : h[i] \in labels})

RECURSIVE SumOver(_, _)
SumOver(S, f) ==
    IF S = {} THEN 0
    ELSE LET x == CHOOSE y \in S : TRUE IN f[x] + SumOver(S \ {x}, f)

\* the items of the last compute_tag_preference call's store result
MatchedIds == FetchAll(call.database, call.slot, call.tag)

\* the number of recorded choice events of the matched items
MatchedEvents ==
    SumOver(MatchedIds, [k \in MatchedIds |-> Len(History(movies_choices, k))])

\* the sum of the stated values of those events
MatchedSum ==
    SumOver(MatchedIds,
            [k \in MatchedIds |->
               CountOf(History(movies_choices, k), {"accept"})
               - CountOf(History(movies_choices, k), {"reject", "dont_like"})])

\* C1: every step of the user model leaves, for every item, the history held
\* before the step a prefix of the history held after it.
C1_HistoryAppendOnly ==
    [][\A k \in MovieIds :
          IsPrefix(History(movies_choices, k), History(movies_choices', k))]_vars

C3_GetFallsBackToCompute ==
    (call.op = "get_tag_preference" /\ <<call.slot, call.tag>> \notin DOMAIN last_set)
    => /\ ret.kind = "float"
       /\ \E database \in Databases :
             ret.pref = ComputeTagPreference(movies_choices,
                                             FetchAll(database, call.slot, call.tag))

\* C4 as stated: every value returned by get_tag_preference or
\* compute_tag_preference and every stored tag preference lies in [-1, 1].
C4_PreferencesInRange ==
    /\ (call.op \in {"get_tag_preference", "compute_tag_preference"}
        /\ ret.kind = "float") => InRange(ret.pref)
    /\ \A s \in DOMAIN tag_preferences : \A t \in DOMAIN tag_preferences[s] :
          InRange(tag_preferences[s][t])

\* C4 amended: compute_tag_preference returns a value in [-1, 1]; a stored
\* tag preference, and a value get_tag_preference returns, lies in [-1, 1]
\* whenever the value most recently passed to set_tag_preference for that
\* (slot, tag) did.
C4_PreferencesInRangeIfSetInRange ==
    /\ call.op = "compute_tag_preference"
          => (ret.kind = "float" /\ InRange(ret.pref))
    /\ \A s \in DOMAIN tag_preferences : \A t \in DOMAIN tag_preferences[s] :
          /\ <<s, t>> \in DOMAIN last_set
          /\ InRange(last_set[<<s, t>>]) => InRange(tag_preferences[s][t])
    /\ (call.op = "get_tag_preference" /\ ret.kind = "float")
          => /\ <<call.slot, call.tag>> \in DOMAIN last_set
             /\ InRange(last_set[<<call.slot, call.tag>>]) => InRange(ret.pref)

\* an in-range preference was set and returned, with choices recorded and
\* an out-of-range preference stored for another tag
C4_Witness ==
    /\ call.op = "get_tag_preference"
    /\ ret.kind = "float" /\ ret.pref = <<1, 2>>
    /\ EventCount(movies_choices) > 0
    /\ \E s \in DOMAIN tag_preferences : \E t \in DOMAIN tag_preferences[s] :
          ~InRange(tag_preferences[s][t])

\* C5: a constructed policy has output_size equal to the length of
\* possible_actions.
C5_ConstructValidatesOutputSize ==
    policy.constructed => policy.output_size = Len(policy.possible_actions)

\* C6 as stated: get_movie_choices returns the recorded history and leaves
\* the set of item ids, every history and the tag preferences unchanged.
C6_GetMovieChoicesChangesNothing ==
    [][call'.op = "get_movie_choices"
       => /\ ret'.kind = "list"
          /\ ret'.choices = History(movies_choices, call'.movie_id)
          /\ DictKeys(movies_choices') = DictKeys(movies_choices)
          /\ \A k \in MovieIds :
                History(movies_choices', k) = History(movies_choices, k)
          /\ tag_preferences' = tag_preferences]_vars

\* C6 amended: get_movie_choices returns the recorded history, empty when
\* none was recorded, and leaves every item's history, the order of the
\* entries and the tag preferences unchanged; the one change it makes is to
\* add the queried id, when it had no entry, with an empty history.
C6_GetMovieChoicesAddsOnlyEmptyEntry ==
    [][call'.op = "get_movie_choices"
       => /\ ret'.kind = "list"
          /\ ret'.choices = History(movies_choices, call'.movie_id)
          /\ DictKeys(movies_choices') = DictKeys(movies_choices) \cup {call'.movie_id}
          /\ IsPrefix(movies_choices, movies_choices')
          /\ \A k \in MovieIds :
                History(movies_choices', k) = History(movies_choices, k)
          /\ tag_preferences' = tag_preferences]_vars

\* a history of two choices was returned while tag preferences were stored
C6_Witness ==
    /\ call.op = "get_movie_choices"
    /\ ret.kind = "list" /\ Len(ret.choices) >= 2
    /\ ret.choices = History(movies_choices, call.movie_id)
    /\ \E s \in DOMAIN tag_preferences : DOMAIN tag_preferences[s] # {}

\* C7: once a preference was set for (slot, tag), get_tag_preference(slot,
\* tag) returns the value most recently set for it.
C7_GetReturnsLastSet ==
    (call.op = "get_tag_preference" /\ <<call.slot, call.tag>> \in DOMAIN last_set)
    => /\ ret.kind = "float"
       /\ ret.pref = last_set[<<call.slot, call.tag>>]

\* a set preference was returned that differs from the preference computed
\* from the recorded choices
C7_Witness ==
    /\ call.op = "get_tag_preference"
    /\ <<call.slot, call.tag>> \in DOMAIN last_set
    /\ ret.kind = "float"
    /\ EventCount(movies_choices) > 0
    /\ \E database \in Databases :
          LET tag_set == FetchAll(database, call.slot, call.tag)
          IN /\ \E k \in tag_set : History(movies_choices, k) # <<>>
             /\ ComputeTagPreference(movies_choices, tag_set) # ret.pref

\* C8: compute_tag_preference returns 0.0, without a division by zero, when
\* no matched item has a recorded choice.
C8_ComputeNeutralWithoutEvents ==
    (call.op = "compute_tag_preference"
     /\ \A k \in MatchedIds : History(movies_choices, k) = <<>>)
    => (ret.kind = "float" /\ ret.pref = Zero)

\* a matched item has an entry with an empty history, another item has
\* recorded choices, and 0.0 was returned
C8_Witness ==
    /\ call.op = "compute_tag_preference"
    /\ \E k \in MatchedIds \cap DictKeys(movies_choices) :
          DictGet(movies_choices, k) = <<>>
    /\ EventCount(movies_choices) > 0
    /\ ret.kind = "float" /\ ret.pref = Zero

\* the position of a label in a vocabulary: one more than the number of
\* labels of the vocabulary that sort before it
Position(label, vocabulary) == 1 + Cardinality({x \in vocabulary : x < label})

\* the part of the last tensor that starts after the first `offset` elements
\* is the multi-hot encoding of the intents in the vocabulary
IsMultiHot(offset, intents, vocabulary) ==
    \A label \in vocabulary :
        tensor[offset + Position(label, vocabulary)]
           = IF \E i \in DOMAIN intents : intents[i] = label THEN 1 ELSE 0

\* C9: the input built from a dialogue state and intents has length
\* 8 + |user vocabulary| + |agent vocabulary|; after the 8 state flags come
\* the user intents' encoding and then the agent intents' encoding, each 1 at
\* the positions of the intents present and 0 elsewhere (all 0 for no intent).
C9_IntentEncodingFixedLength ==
    (pcall.op = "build_input_from_dialogue_state_and_intents"
     \/ (pcall.op = "build_input" /\ pcall.b_use_intents))
    => /\ Len(tensor) = 8 + Cardinality(Range(UserIntentsEnum))
                          + Cardinality(Range(AgentIntentsEnum))
       /\ IsMultiHot(8, pcall.user_intents, Range(UserIntentsEnum))
       /\ IsMultiHot(8 + Cardinality(Range(UserIntentsEnum)),
                     pcall.agent_intents, Range(AgentIntentsEnum))

\* no user intent, and the same agent intent twice
C9_Witness ==
    /\ pcall.op = "build_input_from_dialogue_state_and_intents"
    /\ pcall.user_intents = <<>>
    /\ Len(pcall.agent_intents) = 2
    /\ pcall.agent_intents[1] = pcall.agent_intents[2]
    /\ Len(tensor) = 8 + NumUserIntents + NumAgentIntents
    /\ \A i \in 1..NumUserIntents : tensor[8 + i] = 0

\* C10: _convert_choice_to_preference returns 1.0 for accept, -1.0 for
\* reject and dont_like and 0.0 for every other label, whatever the state of
\* the user model, and changes nothing of it.
C10_ConvertChoiceTotalAndPure ==
    [][call'.op = "_convert_choice_to_preference"
       => /\ ret'.kind = "float"
          /\ ret'.pref = StatedPreference(call'.choice)
          /\ movies_choices' = movies_choices
          /\ tag_preferences' = tag_preferences]_vars

\* dont_like was converted to -1.0 in a user model holding choices
C10_Witness ==
    /\ call.op = "_convert_choice_to_preference"
    /\ call.choice = "dont_like"
    /\ ret.kind = "float" /\ ret.pref = <<-1, 1>>
    /\ EventCount(movies_choices) > 0

=============================================================================
